---------------------------- MODULE Spec2Model ----------------------------
(***************************************************************************)
(* Model of the validated suffix stripper of the durak Turkish lemmatizer  *)
(* (src/src/lib.rs, root_validator.rs, vowel_harmony.rs, morphotactics.rs).*)
(*                                                                         *)
(* A word is a sequence of characters; a character is a short string.      *)
(* ASCII letters stand for themselves, the Turkish letters are written     *)
(*   "c," = c-cedilla   "g~" = soft g      "i-" = dotless i                *)
(*   "o:" = o-umlaut    "s," = s-cedilla   "u:" = u-umlaut                 *)
(*   "C," "G~" "O:" "S," "U:" = their capitals, "I." = capital dotted I,   *)
(*   "I" = capital dotless I, "dot" = U+0307 (combining dot above).        *)
(*                                                                         *)
(* A local of the code that is computed once and used several times is     *)
(* written \E x \in {e} : ..., which names the value of e as x.            *)
(***************************************************************************)
EXTENDS Integers, Sequences, FiniteSets, TLC

(***************************************************************************)
(* Characters                                                              *)
(***************************************************************************)

\* Characters whose UTF-8 encoding takes two bytes; all others take one.
TwoByteChars ==
  {"c,", "g~", "i-", "o:", "s,", "u:", "C,", "G~", "I.", "O:", "S,", "U:", "dot"}

\* char::len_utf8
ByteLen(c) == IF c \in TwoByteChars THEN 2 ELSE 1

\* str::len(): the length of a string in bytes, the sum of ByteLen over its
\* characters
StrByteLen(s) == Len(s) + Cardinality({i \in DOMAIN s : ByteLen(s[i]) = 2})

\* str::chars().count()
CharCount(s) == Len(s)

\* The capital letters of the model's alphabet and their Unicode lowercase
\* mapping (char::to_lowercase): capital dotted I lowers to "i" followed by
\* U+0307, capital dotless I lowers to plain "i".
LowerMap ==
  [c \in {"A", "E", "I", "I.", "O", "O:", "U", "U:", "K", "T", "P", "L", "R", "N", "M", "Y",
          "V", "C", "C,", "G~", "S,"} |->
     CASE c = "A" -> <<"a">>   [] c = "E" -> <<"e">>   [] c = "I" -> <<"i">>
       [] c = "I." -> <<"i", "dot">>
       [] c = "O" -> <<"o">>   [] c = "O:" -> <<"o:">> [] c = "U" -> <<"u">>
       [] c = "U:" -> <<"u:">> [] c = "K" -> <<"k">>   [] c = "T" -> <<"t">>
       [] c = "P" -> <<"p">>   [] c = "L" -> <<"l">>   [] c = "R" -> <<"r">>
       [] c = "N" -> <<"n">>   [] c = "M" -> <<"m">>   [] c = "Y" -> <<"y">>
       [] c = "V" -> <<"v">>   [] c = "C" -> <<"c">>   [] c = "C," -> <<"c,">>
       [] c = "G~" -> <<"g~">> [] c = "S," -> <<"s,">>]

\* char::to_lowercase, as the sequence of characters it yields
CharToLower(c) == IF c \in DOMAIN LowerMap THEN LowerMap[c] ELSE <<c>>

\* The lowercase mappings of the characters of s from position i on
RECURSIVE LowerFrom(_, _)
LowerFrom(s, i) ==
  IF i > Len(s) THEN <<>> ELSE CharToLower(s[i]) \o LowerFrom(s, i + 1)

\* str::to_lowercase
to_lowercase(s) == LowerFrom(s, 1)

\* str::ends_with; a byte-wise suffix match of UTF-8 strings is a
\* character-wise suffix match
ends_with(s, suf) ==
  /\ Len(suf) <= Len(s)
  /\ SubSeq(s, Len(s) - Len(suf) + 1, Len(s)) = suf

\* &current[..current.len() - suffix.len()]
StripSuffix(s, suf) == SubSeq(s, 1, Len(s) - Len(suf))

Range(s) == {s[i] : i \in DOMAIN s}

\* Vec::reverse / Iterator::rev
Reverse(s) == [i \in 1..Len(s) |-> s[Len(s) + 1 - i]]

(***************************************************************************)
(* Suffix inventory (lib.rs, mod suffixes)                                 *)
(***************************************************************************)

COMPOUND_SUFFIXES ==
  << <<"m","e","d","e","n">>, <<"m","a","d","a","n">>, <<"l","a","r","i-","m","i-","z">>,
     <<"l","e","r","i","m","i","z">>, <<"l","a","r","i-","n">>, <<"l","e","r","i","n">>,
     <<"l","a","r","i-","m","i-","z","d","a","n">>, <<"l","e","r","i","m","i","z","d","e","n">>,
     <<"l","a","r","d","a","n">>, <<"l","e","r","d","e","n">>, <<"l","a","r","a">>,
     <<"l","e","r","e">>, <<"i-","m","i-","z","d","a","n">>, <<"i","m","i","z","d","e","n">>,
     <<"i-","n","d","a","n","a","n">>, <<"i","n","d","e","n","a","n">>, <<"m","e","d","i","m">>,
     <<"m","a","d","i-","m">>, <<"m","e","d","i","n">>, <<"m","a","d","i-","n">>,
     <<"m","e","d","i">>, <<"m","a","d","i-">>, <<"m","e","d","i","k">>, <<"m","a","d","i-","k">>,
     <<"m","i","s,","i","m">>, <<"m","i-","s,","i-","m">>, <<"m","i","s,","i","z">>,
     <<"m","i-","s,","i-","z">>, <<"y","o","r","u","m">>, <<"y","o","r","s","u","n">>,
     <<"y","o","r">>, <<"y","o","r","u","z">>, <<"y","o","r","s","u","n","u","z">>,
     <<"y","o","r","l","a","r">>, <<"e","c","e","g~","i","m">>, <<"a","c","a","g~","i-","m">>,
     <<"e","c","e","g~","i","z">>, <<"a","c","a","g~","i-","z">>, <<"e","c","e","k","s","i","n">>,
     <<"a","c","a","k","s","i-","n">>, <<"y","e","b","i","l","m","e","k">>,
     <<"y","a","b","i","l","m","e","k">>, <<"e","b","i","l","i","r","i","m">>,
     <<"a","b","i","l","i","r","i","m">> >>

NOMINAL_SUFFIXES ==
  << <<"l","a","r">>, <<"l","e","r">>, <<"i-","m">>, <<"i","m">>, <<"u","m">>, <<"u:","m">>,
     <<"i-","m","i-","z">>, <<"i","m","i","z">>, <<"u","m","u","z">>, <<"u:","m","u:","z">>,
     <<"i-","n">>, <<"i","n">>, <<"u","n">>, <<"u:","n">>, <<"i-","n","i-","z">>,
     <<"i","n","i","z">>, <<"u","n","u","z">>, <<"u:","n","u:","z">>, <<"i-">>, <<"i">>, <<"u">>,
     <<"u:">>, <<"s","i-">>, <<"s","i">>, <<"s","u">>, <<"s","u:">>, <<"i-">>, <<"i">>, <<"u">>,
     <<"u:">>, <<"a">>, <<"e">>, <<"y","a">>, <<"y","e">>, <<"d","a">>, <<"d","e">>, <<"t","a">>,
     <<"t","e">>, <<"d","a","n">>, <<"d","e","n">>, <<"t","a","n">>, <<"t","e","n">>, <<"i-","n">>,
     <<"i","n">>, <<"u","n">>, <<"u:","n">>, <<"n","i-","n">>, <<"n","i","n">>, <<"n","u","n">>,
     <<"n","u:","n">> >>

VERBAL_SUFFIXES ==
  << <<"i-","l">>, <<"i","l">>, <<"u","l">>, <<"u:","l">>, <<"n">>, <<"i-","n">>, <<"i","n">>,
     <<"u","n">>, <<"u:","n">>, <<"d","i","r">>, <<"d","i-","r">>, <<"d","u","r">>,
     <<"d","u:","r">>, <<"t","i","r">>, <<"t","i-","r">>, <<"t","u","r">>, <<"t","u:","r">>,
     <<"s,">>, <<"i-","s,">>, <<"i","s,">>, <<"u","s,">>, <<"u:","s,">>, <<"m","e">>, <<"m","a">>,
     <<"d","i">>, <<"d","i-">>, <<"d","u">>, <<"d","u:">>, <<"t","i">>, <<"t","i-">>, <<"t","u">>,
     <<"t","u:">>, <<"m","i","s,">>, <<"m","i-","s,">>, <<"m","u","s,">>, <<"m","u:","s,">>,
     <<"e","c","e","k">>, <<"a","c","a","k">>, <<"i","y","o","r">>, <<"e","r">>, <<"a","r">>,
     <<"m","e","k","t","e">>, <<"m","a","k","t","a">>, <<"m">>, <<"n">>, <<"k">>, <<"z">>,
     <<"i-","m">>, <<"i","m">>, <<"u","m">>, <<"u:","m">>, <<"i-","n">>, <<"i","n">>, <<"u","n">>,
     <<"u:","n">>, <<"i-","z">>, <<"i","z">>, <<"u","z">>, <<"u:","z">>, <<"s","i-","n">>,
     <<"s","i","n">>, <<"s","u","n">>, <<"s","u:","n">>, <<"s","i-","n","i-","z">>,
     <<"s","i","n","i","z">>, <<"s","u","n","u","z">>, <<"s","u:","n","u:","z">>, <<"l","a","r">>,
     <<"l","e","r">>, <<"m","e","k">>, <<"m","a","k">> >>

FIXED_MORPHEMES ==
  << <<"i","y","o","r">>, <<"k","e","n">>, <<"k","i">>, <<"l","e","y","i","n">> >>

(***************************************************************************)
(* Root validator (root_validator.rs)                                      *)
(***************************************************************************)

TURKISH_VOWELS ==
  {"a", "e", "i-", "i", "o", "o:", "u", "u:", "A", "E", "I", "I.", "O", "O:", "U", "U:"}

SONORANT_CONSONANTS == {"l", "r", "n", "m", "y", "L", "R", "N", "M", "Y"}

VOICELESS_STOPS == {"p", "c,", "t", "k", "P", "C,", "T", "K"}

INVALID_FINAL_CLUSTERS ==
  << <<"c,","k">>, <<"c,","p">>, <<"c,","t">>, <<"g~","k">>, <<"g~","p">>, <<"g~","t">>,
     <<"k","b">>, <<"k","c">>, <<"k","c,">>, <<"k","g">>, <<"k","g~">>, <<"k","j">>, <<"p","b">>,
     <<"p","c">>, <<"p","c,">>, <<"p","g">>, <<"p","g~">>, <<"p","j">>, <<"t","b">>, <<"t","c">>,
     <<"t","c,">>, <<"t","g">>, <<"t","g~">>, <<"t","j">>, <<"n","d">>, <<"n","t">>, <<"n","k">>,
     <<"n","g">> >>

BOUND_STEMS ==
  << <<"o:","g~","r","e","n","c">>, <<"o:","g~","r","e","t">>, <<"t","a","n","i-">>,
     <<"y","a","p","i-">>, <<"b","i","l","i">>, <<"g","e","l","i">>, <<"g","i","d","i">>,
     <<"k","a","l","i">>, <<"v","e","r","i">>, <<"a","l","i-">>, <<"o","l","i-">>,
     <<"g","o:","r","u:">>, <<"b","i","l","u:">> >>

\* get_valid_roots: the set of lemmas (second fields) of the dictionary lines
get_valid_roots(lines) == {lines[i][2] : i \in DOMAIN lines}

\* RootValidator::has_valid_syllable_structure.  The f32 ratio test
\* 0.2 <= vowels/len <= 0.7 is exact in integers for the lengths modelled.
has_valid_syllable_structure(chars) ==
  LET vowel_count == Cardinality({i \in DOMAIN chars : chars[i] \in TURKISH_VOWELS})
  IN  IF Len(chars) < 2 THEN FALSE
      ELSE IF vowel_count = 0 THEN FALSE
      ELSE IF Len(chars) <= 3 THEN vowel_count >= 1
      ELSE 5 * vowel_count >= Len(chars) /\ 10 * vowel_count <= 7 * Len(chars)

\* check_phonotactics without the test for a vowel
check_phonotactics_no_vowel_test(word) ==
  \E lower_chars \in {to_lowercase(word)} :
  LET last_char   == lower_chars[Len(lower_chars)]
  IN  IF word = <<>> THEN FALSE
      ELSE IF \E k \in DOMAIN INVALID_FINAL_CLUSTERS :
                 ends_with(lower_chars, INVALID_FINAL_CLUSTERS[k]) THEN FALSE
      ELSE IF last_char \in TURKISH_VOWELS THEN TRUE
      ELSE IF last_char \in SONORANT_CONSONANTS
             THEN has_valid_syllable_structure(lower_chars)
      ELSE IF last_char \in VOICELESS_STOPS
             THEN Len(lower_chars) >= 3 /\ has_valid_syllable_structure(lower_chars)
      ELSE TRUE

\* check_phonotactics that lets the empty candidate through
check_phonotactics_accepts_empty(word) ==
  \E lower_chars \in {to_lowercase(word)} :
  LET last_char   == lower_chars[Len(lower_chars)]
  IN  IF word = <<>> THEN TRUE
      ELSE IF ~(\E i \in DOMAIN word : word[i] \in TURKISH_VOWELS) THEN FALSE
      ELSE IF \E k \in DOMAIN INVALID_FINAL_CLUSTERS :
                 ends_with(lower_chars, INVALID_FINAL_CLUSTERS[k]) THEN FALSE
      ELSE IF last_char \in TURKISH_VOWELS THEN TRUE
      ELSE IF last_char \in SONORANT_CONSONANTS
             THEN has_valid_syllable_structure(lower_chars)
      ELSE IF last_char \in VOICELESS_STOPS
             THEN Len(lower_chars) >= 3 /\ has_valid_syllable_structure(lower_chars)
      ELSE TRUE

\* RootValidator::check_phonotactics
check_phonotactics(word) ==
  \E lower_chars \in {to_lowercase(word)} :
  LET last_char   == lower_chars[Len(lower_chars)]
  IN  IF word = <<>> THEN FALSE
      ELSE IF ~(\E i \in DOMAIN word : word[i] \in TURKISH_VOWELS) THEN FALSE
      ELSE IF \E k \in DOMAIN INVALID_FINAL_CLUSTERS :
                 ends_with(lower_chars, INVALID_FINAL_CLUSTERS[k]) THEN FALSE
      ELSE IF last_char \in TURKISH_VOWELS THEN TRUE
      ELSE IF last_char \in SONORANT_CONSONANTS
             THEN has_valid_syllable_structure(lower_chars)
      ELSE IF last_char \in VOICELESS_STOPS
             THEN Len(lower_chars) >= 3 /\ has_valid_syllable_structure(lower_chars)
      ELSE TRUE

\* is_valid_root that applies the phonotactic rules in strict mode too
is_valid_root_never_strict(min_len, is_strict, roots, candidate) ==
  \E candidate_lower \in {to_lowercase(candidate)} :
      IF CharCount(candidate) < min_len THEN FALSE
      ELSE IF \E k \in DOMAIN BOUND_STEMS :
                 \/ candidate_lower = BOUND_STEMS[k]
                 \/ ends_with(candidate_lower, BOUND_STEMS[k]) THEN FALSE
      ELSE check_phonotactics(candidate)

\* is_valid_root without the exclusion of bound stems
is_valid_root_bound_stems_allowed(min_len, is_strict, roots, candidate) ==
  IF CharCount(candidate) < min_len THEN FALSE
  ELSE IF is_strict THEN candidate \in roots
  ELSE check_phonotactics(candidate)

\* is_valid_root without its minimum length check
is_valid_root_no_min_length(min_len, is_strict, roots, candidate) ==
  \E candidate_lower \in {to_lowercase(candidate)} :
      IF \E k \in DOMAIN BOUND_STEMS :
            \/ candidate_lower = BOUND_STEMS[k]
            \/ ends_with(candidate_lower, BOUND_STEMS[k]) THEN FALSE
      ELSE IF is_strict THEN candidate \in roots
      ELSE check_phonotactics(candidate)

\* RootValidator::is_valid_root, for a validator built by
\* RootValidator::new(min_len, is_strict) over the valid-roots set roots
is_valid_root(min_len, is_strict, roots, candidate) ==
  \E candidate_lower \in {to_lowercase(candidate)} :
      IF CharCount(candidate) < min_len THEN FALSE
      ELSE IF \E k \in DOMAIN BOUND_STEMS :
                 \/ candidate_lower = BOUND_STEMS[k]
                 \/ ends_with(candidate_lower, BOUND_STEMS[k]) THEN FALSE
      ELSE IF is_strict THEN candidate \in roots
      ELSE check_phonotactics(candidate)

(***************************************************************************)
(* Vowel harmony (vowel_harmony.rs)                                        *)
(***************************************************************************)

\* get_vowel_class: the class of the first character of the lowercased
\* character, "None" for a non-vowel
get_vowel_class(c) ==
  LET l == Head(CharToLower(c))
  IN  CASE l \in {"e", "i"}   -> "FrontUnrounded"
        [] l \in {"o:", "u:"} -> "FrontRounded"
        [] l \in {"a", "i-"}  -> "BackUnrounded"
        [] l \in {"o", "u"}   -> "BackRounded"
        [] OTHER              -> "None"

\* VowelClass::is_front
is_front(v) == v \in {"FrontUnrounded", "FrontRounded"}

\* get_last_vowel_class: the class of the last vowel, "None" without one
get_last_vowel_class(word) ==
  LET vs == {i \in DOMAIN word : get_vowel_class(word[i]) # "None"}
  IN  IF vs = {} THEN "None"
      ELSE get_vowel_class(word[CHOOSE i \in vs : \A j \in vs : j <= i])

\* check_harmony that also demands agreement in rounding
vowel_harmony_check_harmony_rounding(root_vowel, suffix_vowel) ==
  IF root_vowel # suffix_vowel THEN FALSE ELSE TRUE

\* vowel_harmony::check_harmony (the stripper has an argument of the same
\* name): front/back must match, rounding is not compared
vowel_harmony_check_harmony(root_vowel, suffix_vowel) ==
  IF is_front(root_vowel) # is_front(suffix_vowel) THEN FALSE ELSE TRUE

\* check_vowel_harmony that looks at the suffix before the root
check_vowel_harmony_suffix_first(root, suffix) ==
  \E root_vowel \in {get_last_vowel_class(root)} :
  \E suffix_vowels \in {SelectSeq([i \in DOMAIN suffix |-> get_vowel_class(suffix[i])],
                                 LAMBDA v : v # "None")} :
      IF suffix_vowels = <<>> THEN TRUE
      ELSE IF root_vowel = "None" THEN FALSE
      ELSE \A i \in DOMAIN suffix_vowels : vowel_harmony_check_harmony(root_vowel, suffix_vowels[i])

\* check_vowel_harmony
check_vowel_harmony(root, suffix) ==
  \E root_vowel \in {get_last_vowel_class(root)} :
  \E suffix_vowels \in {SelectSeq([i \in DOMAIN suffix |-> get_vowel_class(suffix[i])],
                                 LAMBDA v : v # "None")} :
      IF root_vowel = "None" THEN FALSE
      ELSE IF suffix_vowels = <<>> THEN TRUE
      ELSE \A i \in DOMAIN suffix_vowels : vowel_harmony_check_harmony(root_vowel, suffix_vowels[i])

(***************************************************************************)
(* Morphotactics (morphotactics.rs)                                        *)
(***************************************************************************)

nominal_map_Plural ==
  { <<"l","a","r">>, <<"l","e","r">> }

nominal_map_Possessive ==
  { <<"i-","m">>, <<"i","m">>, <<"u","m">>, <<"u:","m">>, <<"i-","m","i-","z">>,
     <<"i","m","i","z">>, <<"u","m","u","z">>, <<"u:","m","u:","z">> }

nominal_map_Case ==
  { <<"d","a">>, <<"d","e">>, <<"t","a">>, <<"t","e">>, <<"d","a","n">>, <<"d","e","n">>,
     <<"t","a","n">>, <<"t","e","n">>, <<"i-","n">>, <<"i","n">>, <<"u","n">>, <<"u:","n">>,
     <<"n","i-","n">>, <<"n","i","n">>, <<"n","u","n">>, <<"n","u:","n">>, <<"a">>, <<"e">>,
     <<"y","a">>, <<"y","e">>, <<"i-">>, <<"i">>, <<"u">>, <<"u:">> }

verbal_map_Voice ==
  { <<"i-","l">>, <<"i","l">>, <<"u","l">>, <<"u:","l">>, <<"i-","n">>, <<"i","n">>, <<"u","n">>,
     <<"u:","n">> }

verbal_map_Negation ==
  { <<"m","a">>, <<"m","e">> }

verbal_map_TenseAspect ==
  { <<"d","i">>, <<"d","i-">>, <<"d","u">>, <<"d","u:">>, <<"t","i">>, <<"t","i-">>, <<"t","u">>,
     <<"t","u:">>, <<"y","o","r">>, <<"a","c","a","k">>, <<"e","c","e","k">>, <<"m","i-","s,">>,
     <<"m","i","s,">>, <<"m","u","s,">>, <<"m","u:","s,">> }

verbal_map_Person ==
  { <<"m">>, <<"n">>, <<"k">>, <<"z">>, <<"i-","m">>, <<"i","m">>, <<"u","m">>, <<"u:","m">>,
     <<"n","i-","z">>, <<"n","i","z">>, <<"n","u","z">>, <<"n","u:","z">> }

\* MorphotacticClassifier::new, nominal_map: suffix |-> NominalSlot ordinal
nominal_map ==
  [s \in nominal_map_Plural \cup nominal_map_Possessive \cup nominal_map_Case |->
     IF s \in nominal_map_Plural THEN 1
     ELSE IF s \in nominal_map_Possessive THEN 2
     ELSE 3]

\* MorphotacticClassifier::new, verbal_map: suffix |-> VerbalSlot ordinal
verbal_map ==
  [s \in verbal_map_Voice \cup verbal_map_Negation \cup verbal_map_TenseAspect
         \cup verbal_map_Person |->
     IF s \in verbal_map_Voice THEN 1
     ELSE IF s \in verbal_map_Negation THEN 2
     ELSE IF s \in verbal_map_TenseAspect THEN 3
     ELSE 4]

\* MorphotacticClassifier::classify: verbal map first, then nominal
classify(suffix) ==
  IF suffix \in DOMAIN verbal_map THEN <<"Verbal", verbal_map[suffix]>>
  ELSE IF suffix \in DOMAIN nominal_map THEN <<"Nominal", nominal_map[suffix]>>
  ELSE <<"Unknown", 0>>

\* The rank loop with a strictly increasing test
ValidateRanks_strictly_increasing(ranks) ==
  \A i \in DOMAIN ranks : i = 1 \/ ranks[i] > ranks[i - 1]

\* validate_nominal_sequence / validate_verbal_sequence on the slot ordinals:
\* running over the ranks, each must be >= the one before it
ValidateRanks(ranks) ==
  \A i \in DOMAIN ranks : i = 1 \/ ~(ranks[i] < ranks[i - 1])

\* MorphotacticClassifier::validate_nominal_sequence
validate_nominal_sequence(slots) ==
  ValidateRanks([i \in DOMAIN slots |-> slots[i][2]])

\* MorphotacticClassifier::validate_verbal_sequence
validate_verbal_sequence(slots) ==
  ValidateRanks([i \in DOMAIN slots |-> slots[i][2]])

\* MorphotacticClassifier::try_validate_as_nominal
try_validate_as_nominal(suffixes) ==
  IF \E i \in DOMAIN suffixes : suffixes[i] \notin DOMAIN nominal_map THEN FALSE
  ELSE validate_nominal_sequence([i \in DOMAIN suffixes |->
                                    <<"Nominal", nominal_map[suffixes[i]]>>])

\* MorphotacticClassifier::try_validate_as_verbal
try_validate_as_verbal(suffixes) ==
  IF \E i \in DOMAIN suffixes : suffixes[i] \notin DOMAIN verbal_map THEN FALSE
  ELSE validate_verbal_sequence([i \in DOMAIN suffixes |->
                                   <<"Verbal", verbal_map[suffixes[i]]>>])

\* validate_sequence without the permissive return for unknown suffixes
validate_sequence_unknown_not_permitted(suffixes) ==
  LET has_ambiguous == \E i \in DOMAIN suffixes :
                          /\ suffixes[i] \in DOMAIN nominal_map
                          /\ suffixes[i] \in DOMAIN verbal_map
      slots       == [i \in DOMAIN suffixes |-> classify(suffixes[i])]
      all_nominal == \A i \in DOMAIN slots : slots[i][1] = "Nominal"
      all_verbal  == \A i \in DOMAIN slots : slots[i][1] = "Verbal"
  IN  IF suffixes = <<>> THEN TRUE
      ELSE IF has_ambiguous
             THEN try_validate_as_nominal(suffixes) \/ try_validate_as_verbal(suffixes)
      ELSE IF ~all_nominal /\ ~all_verbal THEN FALSE
      ELSE IF all_nominal THEN validate_nominal_sequence(slots)
      ELSE validate_verbal_sequence(slots)

\* validate_sequence that classifies ambiguous suffixes like the others
\* (verbal map first) instead of trying both paradigms
validate_sequence_classify_only(suffixes) ==
  LET slots       == [i \in DOMAIN suffixes |-> classify(suffixes[i])]
      all_nominal == \A i \in DOMAIN slots : slots[i][1] = "Nominal"
      all_verbal  == \A i \in DOMAIN slots : slots[i][1] = "Verbal"
  IN  IF suffixes = <<>> THEN TRUE
      ELSE IF \E i \in DOMAIN slots : slots[i][1] = "Unknown" THEN TRUE
      ELSE IF ~all_nominal /\ ~all_verbal THEN FALSE
      ELSE IF all_nominal THEN validate_nominal_sequence(slots)
      ELSE validate_verbal_sequence(slots)

\* MorphotacticClassifier::validate_sequence
validate_sequence(suffixes) ==
  LET has_ambiguous == \E i \in DOMAIN suffixes :
                          /\ suffixes[i] \in DOMAIN nominal_map
                          /\ suffixes[i] \in DOMAIN verbal_map
      slots       == [i \in DOMAIN suffixes |-> classify(suffixes[i])]
      all_nominal == \A i \in DOMAIN slots : slots[i][1] = "Nominal"
      all_verbal  == \A i \in DOMAIN slots : slots[i][1] = "Verbal"
  IN  IF suffixes = <<>> THEN TRUE
      ELSE IF has_ambiguous
             THEN try_validate_as_nominal(suffixes) \/ try_validate_as_verbal(suffixes)
      ELSE IF \E i \in DOMAIN slots : slots[i][1] = "Unknown" THEN TRUE
      ELSE IF ~all_nominal /\ ~all_verbal THEN FALSE
      ELSE IF all_nominal THEN validate_nominal_sequence(slots)
      ELSE validate_verbal_sequence(slots)

(***************************************************************************)
(* Lemma dictionary (lib.rs)                                               *)
(***************************************************************************)

\* Dictionary records <<inflected, lemma>> that the unit tests of lib.rs and
\* root_validator.rs look up in the embedded resource
DictTests ==
  << << <<"k","i","t","a","p","l","a","r">>, <<"k","i","t","a","p">> >>,
     << <<"e","v","l","e","r">>, <<"e","v">> >>,
     << <<"i","n","s","a","n","l","a","r">>, <<"i","n","s","a","n">> >>,
     << <<"a","r","a","b","a","l","a","r">>, <<"a","r","a","b","a">> >>,
     << <<"c,","o","c","u","k","l","a","r">>, <<"c,","o","c","u","k">> >>,
     << <<"a","d","a","m","l","a","r">>, <<"a","d","a","m">> >>,
     << <<"s,","e","h","i","r","l","e","r">>, <<"s,","e","h","i","r">> >>,
     << <<"g","e","l","i","y","o","r","u","m">>, <<"g","e","l">> >>,
     << <<"g","i","t","t","i","m">>, <<"g","i","t">> >>,
     << <<"y","a","p","i-","y","o","r","u","m">>, <<"y","a","p">> >>,
     << <<"s","o:","y","l","e","d","i">>, <<"s","o:","y","l","e">> >>,
     << <<"a","l","d","i-","m">>, <<"a","l">> >>,
     << <<"a","n","a","l","a","r","i-">>, <<"a","n","a">> >> >>

\* Further records of the kind a lemma table holds: a one-letter lemma, a
\* lemma that ends in a compound suffix, and lemmas that are bound stems
DictMore ==
  << << <<"o","n","l","a","r">>, <<"o">> >>,
     << <<"g","e","l","i","n","l","e","r">>, <<"g","e","l","i","n">> >>,
     << <<"s","e","n","y","o","r","l","a","r">>, <<"s","e","n","y","o","r">> >>,
     << <<"s","e","n","i">>, <<"s","e","n">> >>,
     << <<"y","a","p","i-","l","a","r","i-">>, <<"y","a","p","i-">> >>,
     << <<"v","e","r","i","l","e","r">>, <<"v","e","r","i">> >>,
     << <<"v","e","r","d","i">>, <<"v","e","r">> >> >>

\* The dictionaries a build of the library may embed
Dictionaries == {DictTests, DictTests \o DictMore}

\* dict_get returning the inflected form it was asked for instead of the
\* lemma stored with it
dict_get_key(lines, word) ==
  IF \E i \in DOMAIN lines : lines[i][1] = word THEN <<word>> ELSE <<>>

\* get_lemma_dict followed by HashMap::get: the lemma of the last record
\* whose inflected form is word, wrapped as <<lemma>>; <<>> for None
dict_get(lines, word) ==
  LET hits == {i \in DOMAIN lines : lines[i][1] = word}
  IN  IF hits = {} THEN <<>>
      ELSE << lines[CHOOSE i \in hits : \A j \in hits : j <= i][2] >>

\* lookup_lemma
lookup_lemma(lines, word) == dict_get(lines, word)

\* The set named dictionary in strip_suffixes_validated: the valid-roots set
dictionary(lines) == get_valid_roots(lines)

(***************************************************************************)
(* Validated stripper (lib.rs, strip_suffixes_validated)                   *)
(***************************************************************************)

MAX_ITERATIONS == 10

\* Vec::sort_by(|a, b| b.len().cmp(&a.len())): a stable sort by byte length,
\* longest first
RECURSIVE SortFrom(_, _)
SortFrom(s, n) ==
  IF n = 0 THEN <<>>
  ELSE SelectSeq(s, LAMBDA x : StrByteLen(x) = n) \o SortFrom(s, n - 1)

MaxByteLen(s) ==
  LET lens == {StrByteLen(s[i]) : i \in DOMAIN s}
  IN  IF lens = {} THEN 0 ELSE CHOOSE n \in lens : \A m \in lens : m <= n

\* The sort with the comparison turned round: shortest first
sort_by_len_asc(s) == Reverse(SortFrom(s, MaxByteLen(s)))

sort_by_len_desc(s) == SortFrom(s, MaxByteLen(s))

\* Vec::dedup: removes consecutive repeated elements, keeping the first of
\* each run
dedup(s) ==
  LET keep == {i \in DOMAIN s : i = 1 \/ s[i] # s[i - 1]}
  IN  [j \in 1..Cardinality(keep) |->
         s[CHOOSE i \in keep : Cardinality({m \in keep : m <= i}) = j]]

\* The value given to all_single_suffixes at the start of phase 2
collect_all_single_suffixes == dedup(sort_by_len_desc(NOMINAL_SUFFIXES \o VERBAL_SUFFIXES))

\* test_sequence of phase 2: vec![suffix], extended by the stripped suffixes
\* reversed, then reversed as a whole
test_sequence(suffix, stripped) == Reverse(<<suffix>> \o Reverse(stripped))

\* has_harmony of phase 1
compound_has_harmony(do_check, candidate, suffix) ==
  ~do_check \/ check_vowel_harmony(candidate, suffix)

\* has_harmony of phase 2 that never consults the harmony checker
single_has_harmony_skipped(do_check, candidate, suffix) == TRUE

\* has_harmony of phase 2
single_has_harmony(do_check, candidate, suffix) ==
  ~do_check \/ (IF suffix \in Range(FIXED_MORPHEMES) THEN TRUE
                ELSE check_vowel_harmony(candidate, suffix))

\* The acceptance test of phase 1 for compound suffix number k
CompoundAccepts(cur, k, min_len, is_strict, do_check, roots) ==
  \E suffix \in {COMPOUND_SUFFIXES[k]} :
  \E candidate \in {StripSuffix(cur, suffix)} :
      /\ ends_with(cur, suffix)
      /\ is_valid_root(min_len, is_strict, roots, candidate)
      /\ compound_has_harmony(do_check, candidate, suffix)
      /\ validate_sequence(<<suffix>>)
      /\ candidate # <<>>

\* The acceptance test of phase 2 for single suffix number k
SingleAccepts(suffixes, cur, k, stripped, min_len, is_strict, do_check, roots) ==
  \E suffix \in {suffixes[k]} :
  \E candidate \in {StripSuffix(cur, suffix)} :
      /\ ends_with(cur, suffix)
      /\ ~(CharCount(candidate) < min_len)
      /\ is_valid_root(min_len, is_strict, roots, candidate)
      /\ single_has_harmony(do_check, candidate, suffix)
      /\ \E sequence \in {test_sequence(suffix, stripped)} : validate_sequence(sequence)

\* The while-loop test without the iteration cap
loop_continues_uncapped(has_changed, iters) == has_changed

\* The test of the while-loop of phase 2
loop_continues(has_changed, iters) == has_changed /\ iters < MAX_ITERATIONS

\* A final resolution that gives up with the empty string when the current
\* candidate is neither a known root nor a valid root
final_resolution_gives_up(cur, best, min_len, is_strict, roots, known) ==
  IF cur \in known THEN cur
  ELSE IF is_valid_root(min_len, is_strict, roots, cur) THEN cur
  ELSE <<>>

\* The value returned by the final resolution
final_resolution(cur, best, min_len, is_strict, roots, known) ==
  IF cur \in known THEN cur
  ELSE IF is_valid_root(min_len, is_strict, roots, cur) THEN cur
  ELSE best

\* The greatest element of a set of indices, 0 for the empty set: a loop
\* that does not break at its first hit
Greatest(indices) ==
  IF indices = {} THEN 0 ELSE CHOOSE k \in indices : \A j \in indices : j <= k

\* The least element of a set of indices, 0 for the empty set
Least(indices) ==
  IF indices = {} THEN 0 ELSE CHOOSE k \in indices : \A j \in indices : k <= j

\* The numbers of the compound suffixes that the for-loop of phase 1 would
\* accept for cur; the loop breaks at the least of them
CompoundAccepted(cur, min_len, is_strict, do_check, roots) ==
  {k \in DOMAIN COMPOUND_SUFFIXES :
      CompoundAccepts(cur, k, min_len, is_strict, do_check, roots)}

\* The numbers of the single suffixes that the for-loop of phase 2 would
\* accept for cur; the loop breaks at the least of them
SingleAccepted(suffixes, cur, stripped, min_len, is_strict, do_check, roots) ==
  {k \in DOMAIN suffixes :
      SingleAccepts(suffixes, cur, k, stripped, min_len, is_strict, do_check, roots)}

\* lib.rs 400-461: the while-loop of phase 2 from one test of its condition
\* on, and the final resolution, as the value the call returns
RECURSIVE single_pass(_, _, _, _, _, _, _, _, _)
single_pass(cur, best, stripped, has_changed, iters, min_len, is_strict, do_check, lines) ==
  LET roots == get_valid_roots(lines)
      known == dictionary(lines)
      k     == Least(SingleAccepted(collect_all_single_suffixes, cur, stripped, min_len,
                                    is_strict, do_check, roots))
      suffix    == collect_all_single_suffixes[k]
      candidate == StripSuffix(cur, suffix)
  IN  IF ~loop_continues(has_changed, iters) \/ cur \in known
        THEN final_resolution(cur, best, min_len, is_strict, roots, known)
      ELSE IF k = 0
        THEN single_pass(cur, best, stripped, FALSE, iters + 1, min_len, is_strict,
                         do_check, lines)
      ELSE IF candidate \in known THEN candidate
      ELSE single_pass(candidate, candidate, Append(stripped, suffix), TRUE, iters + 1,
                       min_len, is_strict, do_check, lines)

\* lib.rs 346-462: strip_suffixes_validated as a function of its arguments and
\* of the lines of the embedded dictionary
strip_suffixes_validated(w, is_strict, min_len, do_check, lines) ==
  LET k == Least(CompoundAccepted(w, min_len, is_strict, do_check, get_valid_roots(lines)))
      suffix    == COMPOUND_SUFFIXES[k]
      candidate == StripSuffix(w, suffix)
  IN  IF is_strict /\ lookup_lemma(lines, w) # <<>> THEN lookup_lemma(lines, w)[1]
      ELSE IF k # 0
        THEN single_pass(candidate, candidate, <<suffix>>, TRUE, 0, min_len, is_strict,
                         do_check, lines)
      ELSE single_pass(w, w, <<>>, TRUE, 0, min_len, is_strict, do_check, lines)

(***************************************************************************)
(* Naive stripper (lib.rs, strip_suffixes)                                 *)
(***************************************************************************)

\* all_suffixes, sorted by byte length, longest first, as in every run of the
\* while-loop
naive_sorted == sort_by_len_desc(COMPOUND_SUFFIXES \o NOMINAL_SUFFIXES \o VERBAL_SUFFIXES)

\* The test of the for-loop of strip_suffixes for suffix number k
NaiveAccepts(cur, k) ==
  \E suffix \in {naive_sorted[k]} :
     ends_with(cur, suffix) /\ CharCount(cur) > CharCount(suffix) + 2

\* The numbers of the suffixes the for-loop would strip from cur; it breaks
\* at the least of them
NaiveAccepted(cur) == {k \in DOMAIN naive_sorted : NaiveAccepts(cur, k)}

(***************************************************************************)
(* Inputs                                                                  *)
(***************************************************************************)

\* Largest min_root_length tried
MaxMinRootLength == 3

\* Largest number of suffixes appended to a root to form an input word
MaxChain == 2

\* Number of repetitions of the dative "a" in the long input word
RepeatLen == 12

Roots ==
  { <<"k","i","t","a","p">>, <<"e","v">>, <<"g","e","l">>, <<"x","y","z">>,
    <<"y","a","p","i-">> }

ChainSuffixes ==
  { <<"l","a","r">>, <<"l","e","r">>, <<"d","a">>, <<"d","e","n">>, <<"i-","m">>,
    <<"d","i">> }

RECURSIVE Chains(_)
Chains(n) ==
  IF n = 0 THEN { <<>> }
  ELSE LET shorter == Chains(n - 1)
       IN  shorter \cup {c \o s : c \in shorter, s \in ChainSuffixes}

RECURSIVE Repeat(_, _)
Repeat(s, n) == IF n = 0 THEN <<>> ELSE s \o Repeat(s, n - 1)

FixedWords ==
  { <<>>, <<"a">>, <<"e">>, <<"m">>, <<"k">>, <<"k","r","m">>, <<"x","y","z","m">>,
    <<"e","v","i","m","i","z">>, <<"g","e","l","i","y","o","r">>,
    <<"o:","g~","r","e","n","c","i">>,
    <<"e","v","l","e","r","i","m","i","z","d","e","n">>,
    <<"k","i","t","a","p","l","a","r","i-","m","d","a">>,
    <<"k","i","t","a","p","l","a","r","d","a","n">>,
    <<"i","n","s","a","n","l","a","r","i-","n">>,
    <<"g","e","l","i","y","o","r","u","m">>, <<"g","i","t","t","i","m">>,
    <<"o","n","l","a","r">>, <<"g","e","l","i","n">>, <<"s","e","n","y","o","r">>,
    <<"y","a","p","i-","l","a","r">>, <<"m","a","s","a","l","a","r">>,
    <<"E","V","L","E","R">>, <<"E","v","l","e","r">>,
    <<"O:","G~","R","E","N","C","i">>, <<"K","I.","T","A","P","l","a","r">>,
    <<"k">> \o Repeat(<<"a">>, RepeatLen) }
  \cup Range(BOUND_STEMS)

Words == FixedWords \cup {r \o c : r \in Roots, c \in Chains(MaxChain)}

(***************************************************************************)
(* State                                                                   *)
(***************************************************************************)

VARIABLES
  word,              \* argument word
  strict,            \* argument strict
  min_root_length,   \* argument min_root_length
  check_harmony,     \* argument check_harmony
  dict,              \* records of the embedded lemma dictionary
  pc,                \* "tier1", "compound", "single", "final" or "done"; for a
                     \* direct call of a helper, "probe" then "answered"; in
                     \* strip_suffixes, "naive" then "done"
  current,           \* local current
  best_result,       \* local best_result
  stripped_suffixes, \* local stripped_suffixes, in peel order
  all_single_suffixes, \* local all_single_suffixes, empty until phase 2
  changed,           \* local changed
  iterations,        \* local iterations
  result,            \* the returned string, once pc = "done"
  tier1_hit,         \* history: the Tier 1 lookup returned
  peels,             \* history: the accepted peels, in order
  probe_in,          \* the arguments of a direct call of a helper
  probe_out,         \* the boolean that call returned, once pc = "answered"
  once_cell,         \* the statics LEMMA_DICT and VALID_ROOTS (OnceLock cells)
  callers            \* the threads that call get_lemma_dict or get_valid_roots

vars == <<word, strict, min_root_length, check_harmony, dict, pc, current, best_result,
          stripped_suffixes, all_single_suffixes, changed, iterations, result, tier1_hit,
          peels, probe_in, probe_out, once_cell, callers>>

\* The state of a call of strip_suffixes_validated apart from its arguments
locals == <<pc, current, best_result, stripped_suffixes, all_single_suffixes, changed,
            iterations, result, tier1_hit, peels>>

probe == <<probe_in, probe_out>>

once == <<once_cell, callers>>

\* The two statics, before any use: OnceLock::new()
Cells == {"LEMMA_DICT", "VALID_ROOTS"}
OnceNew == [c \in Cells |-> [state |-> "uninit", value |-> {}]]

\* No thread is in get_lemma_dict or get_valid_roots
OnceUntouched == once_cell = OnceNew /\ callers = <<>>

args == <<word, strict, min_root_length, check_harmony, dict>>

Init ==
  /\ word \in Words
  /\ strict \in BOOLEAN
  /\ min_root_length \in 0..MaxMinRootLength
  /\ check_harmony \in BOOLEAN
  /\ dict \in Dictionaries
  /\ pc = "tier1"
  /\ current = <<>>
  /\ best_result = <<>>
  /\ stripped_suffixes = <<>>
  /\ all_single_suffixes = <<>>
  /\ changed = TRUE
  /\ iterations = 0
  /\ result = <<>>
  /\ tier1_hit = FALSE
  /\ peels = <<>>
  /\ probe_in = <<>>
  /\ probe_out = FALSE
  /\ OnceUntouched

\* lib.rs 352-363: the Tier 1 lookup in strict mode, else the locals are set up
Tier1Lookup ==
  /\ pc = "tier1"
  /\ IF strict /\ lookup_lemma(dict, word) # <<>>
       THEN /\ result' = lookup_lemma(dict, word)[1]
            /\ tier1_hit' = TRUE
            /\ pc' = "done"
            /\ UNCHANGED <<current, best_result>>
       ELSE /\ current' = word
            /\ best_result' = word
            /\ pc' = "compound"
            /\ UNCHANGED <<result, tier1_hit>>
  /\ UNCHANGED <<once, probe, args, stripped_suffixes, all_single_suffixes, changed, iterations, peels>>

\* lib.rs 365-398: phase 1, the for-loop over COMPOUND_SUFFIXES up to its break,
\* then the locals of phase 2
CompoundPass ==
  /\ pc = "compound"
  /\ \E roots \in {get_valid_roots(dict)} :
     \E accepted \in {CompoundAccepted(current, min_root_length, strict, check_harmony,
                                       roots)} :
     \E k \in {Least(accepted)} :
       IF k # 0
         THEN \E suffix \in {COMPOUND_SUFFIXES[k]} :
              \E candidate \in {StripSuffix(current, suffix)} :
                /\ current' = candidate
                /\ stripped_suffixes' = Append(stripped_suffixes, suffix)
                /\ best_result' = candidate
                /\ peels' = Append(peels, [phase |-> "compound", suffix |-> suffix,
                                           candidate |-> candidate,
                                           sequence |-> <<suffix>>,
                                           before |-> stripped_suffixes])
         ELSE UNCHANGED <<current, stripped_suffixes, best_result, peels>>
  /\ all_single_suffixes' = collect_all_single_suffixes
  /\ pc' = "single"
  /\ changed' = TRUE
  /\ iterations' = 0
  /\ UNCHANGED <<once, probe, args, result, tier1_hit>>

\* lib.rs 400-449: the test of the while-loop and one run of its body
SingleIteration ==
  /\ pc = "single"
  /\ IF ~loop_continues(changed, iterations)
       THEN /\ pc' = "final"
            /\ UNCHANGED <<current, best_result, stripped_suffixes, changed, iterations,
                           result, peels>>
       ELSE /\ iterations' = iterations + 1
            /\ IF current \in dictionary(dict)
                 THEN /\ pc' = "final"
                      /\ changed' = FALSE
                      /\ UNCHANGED <<current, best_result, stripped_suffixes, result, peels>>
                 ELSE \E roots \in {get_valid_roots(dict)} :
                      \E accepted \in {SingleAccepted(all_single_suffixes, current,
                                           stripped_suffixes, min_root_length, strict,
                                           check_harmony, roots)} :
                      \E k \in {Least(accepted)} :
                        IF k = 0
                          THEN /\ changed' = FALSE
                               /\ pc' = "single"
                               /\ UNCHANGED <<current, best_result, stripped_suffixes,
                                              result, peels>>
                          ELSE \E suffix \in {all_single_suffixes[k]} :
                               \E candidate \in {StripSuffix(current, suffix)} :
                               \E peel \in {[phase |-> "single", suffix |-> suffix,
                                             candidate |-> candidate,
                                             sequence |-> test_sequence(suffix,
                                                                        stripped_suffixes),
                                             before |-> stripped_suffixes]} :
                                 IF candidate \in dictionary(dict)
                                   THEN /\ result' = candidate
                                        /\ pc' = "done"
                                        /\ changed' = FALSE
                                        /\ peels' = Append(peels, peel)
                                        /\ UNCHANGED <<current, best_result,
                                                       stripped_suffixes>>
                                   ELSE /\ current' = candidate
                                        /\ stripped_suffixes' = Append(stripped_suffixes,
                                                                       suffix)
                                        /\ best_result' = candidate
                                        /\ changed' = TRUE
                                        /\ pc' = "single"
                                        /\ peels' = Append(peels, peel)
                                        /\ UNCHANGED result
  /\ UNCHANGED <<once, probe, args, all_single_suffixes, tier1_hit>>

\* lib.rs 451-461: the final resolution
FinalResolution ==
  /\ pc = "final"
  /\ result' = final_resolution(current, best_result, min_root_length, strict,
                                 get_valid_roots(dict), dictionary(dict))
  /\ pc' = "done"
  /\ UNCHANGED <<once, probe, args, current, best_result, stripped_suffixes, all_single_suffixes,
                 changed, iterations,
                 tier1_hit, peels>>

Next == Tier1Lookup \/ CompoundPass \/ SingleIteration \/ FinalResolution

Spec == Init /\ [][Next]_vars

\* Every step of a call is taken eventually: the function runs to its return
FairSpec == Spec /\ WF_vars(Next)

TypeOK ==
  /\ pc \in {"tier1", "compound", "single", "final", "done", "probe", "answered", "naive",
            "once"}
  /\ probe_out \in BOOLEAN
  /\ iterations \in 0..MAX_ITERATIONS
  /\ changed \in BOOLEAN
  /\ tier1_hit \in BOOLEAN

(***************************************************************************)
(* Direct calls of the helpers.  Each helper below is a pure function; a   *)
(* specification draws its arguments in Init and applies it in one step,   *)
(* with the variables of the stripper at rest.                             *)
(***************************************************************************)

\* All strings of at most n characters over an alphabet
Strings(alphabet, n) == UNION {[1..k -> alphabet] : k \in 0..n}

AtRest ==
  /\ word = <<>> /\ strict = FALSE /\ min_root_length = 0 /\ check_harmony = TRUE
  /\ current = <<>> /\ best_result = <<>> /\ stripped_suffixes = <<>>
  /\ all_single_suffixes = <<>> /\ changed = TRUE /\ iterations = 0
  /\ result = <<>> /\ tier1_hit = FALSE /\ peels = <<>>
  /\ pc = "probe" /\ probe_out = FALSE
  /\ OnceUntouched

Answered(out) ==
  /\ pc = "probe"
  /\ pc' = "answered"
  /\ probe_out' = out
  /\ UNCHANGED <<args, current, best_result, stripped_suffixes, all_single_suffixes, changed,
                 iterations, result, tier1_hit, peels, probe_in, once>>

\* ---- get_lemma_dict() and get_valid_roots(), called from several threads ----

NumCallers == 3

Callers == 1..NumCallers

\* get_lemma_dict, the closure: the HashMap after the inserts of the records,
\* a later record replacing an earlier one with the same inflected form
lemma_dict_map(lines) ==
  { <<lines[i][1], lines[i][2]>> :
      i \in {i \in DOMAIN lines : \A j \in DOMAIN lines : lines[j][1] = lines[i][1] => j <= i} }

\* The value the closure handed to get_or_init builds from the records
closure_value(cell, lines) ==
  IF cell = "LEMMA_DICT" THEN lemma_dict_map(lines) ELSE get_valid_roots(lines)

\* OnceLock::get_or_init that does not wait for a running initializer
once_blocks_never(state) == FALSE

\* OnceLock::get_or_init: a caller that finds the initializer of another
\* thread running waits until the cell is complete
once_blocks(state) == state = "running"

OnceInit ==
  /\ word = <<>> /\ strict = FALSE /\ min_root_length = 0 /\ check_harmony = TRUE
  /\ dict \in Dictionaries
  /\ pc = "once"
  /\ current = <<>> /\ best_result = <<>> /\ stripped_suffixes = <<>>
  /\ all_single_suffixes = <<>> /\ changed = TRUE /\ iterations = 0
  /\ result = <<>> /\ tier1_hit = FALSE /\ peels = <<>>
  /\ probe_in = <<>> /\ probe_out = FALSE
  /\ once_cell = OnceNew
  /\ callers \in [Callers -> {[pc |-> "get_or_init", cell |-> c, lines_done |-> 0,
                               ran |-> FALSE, seen |-> {}] : c \in Cells}]

\* lib.rs 30, root_validator.rs 38: get_or_init entered by thread t.  A
\* complete cell is read; an untouched cell makes t the one initializer
GetOrInit(t) ==
  /\ pc = "once"
  /\ callers[t].pc = "get_or_init"
  /\ \E c \in {callers[t].cell} :
       /\ ~once_blocks(once_cell[c].state)
       /\ IF once_cell[c].state = "uninit"
            THEN /\ once_cell' = [once_cell EXCEPT ![c].state = "running"]
                 /\ callers' = [callers EXCEPT ![t].pc = "closure", ![t].ran = TRUE]
            ELSE /\ callers' = [callers EXCEPT ![t].pc = "returned",
                                              ![t].seen = once_cell[c].value]
                 /\ UNCHANGED once_cell
  /\ UNCHANGED <<probe, args, locals>>

\* lib.rs 31-47, root_validator.rs 39-52: the closure of thread t handles the
\* next line of the resource, or returns its value, which get_or_init stores
\* in the cell and hands to t
ClosureStep(t) ==
  /\ pc = "once"
  /\ callers[t].pc = "closure"
  /\ IF callers[t].lines_done < Len(dict)
       THEN /\ callers' = [callers EXCEPT ![t].lines_done = @ + 1]
            /\ UNCHANGED once_cell
       ELSE \E c \in {callers[t].cell} :
            \E built \in {closure_value(c, SubSeq(dict, 1, callers[t].lines_done))} :
              /\ once_cell' = [once_cell EXCEPT ![c] = [state |-> "complete", value |-> built]]
              /\ callers' = [callers EXCEPT ![t].pc = "returned", ![t].seen = built]
  /\ UNCHANGED <<probe, args, locals>>

OnceNext == \E t \in Callers : GetOrInit(t) \/ ClosureStep(t)

OnceSpec == OnceInit /\ [][OnceNext]_vars

\* Every thread that can take a step eventually takes one
OnceFairSpec == OnceSpec /\ WF_vars(OnceNext)

\* ---- strip_suffixes(word) ----

\* Noun roots of the unit tests and of the dictionary records
NounRoots ==
  { <<"k","i","t","a","p">>, <<"e","v">>, <<"i","n","s","a","n">>, <<"a","r","a","b","a">>,
    <<"c,","o","c","u","k">>, <<"a","d","a","m">>, <<"s,","e","h","i","r">>,
    <<"m","a","s","a">>, <<"o","k","u","l">>, <<"g","o:","z">>, <<"y","o","l">>,
    <<"k","a","l","e","m">>, <<"a","t">>, <<"g","u:","n">> }

Plurals == { <<"l","a","r">>, <<"l","e","r">> }

\* A noun root with the plural suffix that agrees with it
PluralWords ==
  UNION {{r \o p : p \in {q \in Plurals : check_vowel_harmony(r, q)}} : r \in NounRoots}

NaiveWords == PluralWords \cup Words

NaiveInit ==
  /\ word \in NaiveWords
  /\ strict = FALSE /\ min_root_length = 0 /\ check_harmony = TRUE /\ dict = DictTests
  /\ pc = "naive"
  /\ current = word
  /\ changed = TRUE
  /\ best_result = <<>> /\ stripped_suffixes = <<>> /\ all_single_suffixes = <<>>
  /\ iterations = 0 /\ result = <<>> /\ tier1_hit = FALSE /\ peels = <<>>
  /\ probe_in = <<>> /\ probe_out = FALSE
  /\ OnceUntouched

\* lib.rs 317-329: the test of the while-loop and one run of its body, or the
\* return of current
NaiveIteration ==
  /\ pc = "naive"
  /\ IF ~changed
       THEN /\ result' = current
            /\ pc' = "done"
            /\ UNCHANGED <<current, changed>>
       ELSE \E k \in {Least(NaiveAccepted(current))} :
              /\ IF k = 0
                   THEN /\ changed' = FALSE
                        /\ UNCHANGED current
                   ELSE /\ current' = StripSuffix(current, naive_sorted[k])
                        /\ changed' = TRUE
              /\ UNCHANGED <<result, pc>>
  /\ UNCHANGED <<once, probe, args, best_result, stripped_suffixes, all_single_suffixes, iterations,
                 tier1_hit, peels>>

NaiveNext == NaiveIteration

NaiveSpec == NaiveInit /\ [][NaiveNext]_vars

\* ---- check_vowel_harmony(root, suffix) ----

HarmonyRootLen == 3
HarmonySuffixLen == 2

\* One vowel of each of the four classes and a consonant
HarmonyAlphabet == {"a", "e", "o", "u:", "k"}

HarmonyRoots ==
  Strings(HarmonyAlphabet, HarmonyRootLen)
  \cup { <<"k","i","t","a","p">>, <<"a","d","a","m">>, <<"y","o","l">>, <<"e","v">>,
         <<"s,","e","h","i","r">>, <<"g","o:","z">>, <<"x","y","z">>, <<"g","e","l">>,
         <<"m","a","s","a">>, <<"o","k","u","l">>, <<"k","i-","z">>, <<"K","I","Z">>,
         <<"K","I.","T","A","P">>, <<"E","V">> }

HarmonySuffixes ==
  Strings(HarmonyAlphabet, HarmonySuffixLen)
  \cup Range(FIXED_MORPHEMES) \cup Range(NOMINAL_SUFFIXES) \cup Range(VERBAL_SUFFIXES)
  \cup { <<"m">>, <<"L","E","R">> }

HarmonyInit == AtRest /\ dict = DictTests /\ probe_in \in HarmonyRoots \X HarmonySuffixes

CallCheckVowelHarmony == Answered(check_vowel_harmony(probe_in[1], probe_in[2]))

HarmonyNext == CallCheckVowelHarmony

HarmonySpec == HarmonyInit /\ [][HarmonyNext]_vars

\* ---- MorphotacticClassifier::validate_sequence(suffixes) ----

MaxSequenceLen == 3

\* Suffixes of every slot of both maps, ambiguous ones ("i-m", "um": possessive
\* and person; "in": case and voice) and an unknown one
SequenceSuffixes ==
  { <<"l","a","r">>, <<"i","m","i","z">>, <<"d","a">>, <<"i-","m">>, <<"u","m">>, <<"i","n">>,
    <<"i-","l">>, <<"m","a">>, <<"d","i">>, <<"y","o","r">>, <<"m">>, <<"x","y","z">> }

\* The sequences of the unit tests that the sample above does not spell
TestSequences ==
  { << <<"i","m">>, <<"d","e">> >>, << <<"i-","l">>, <<"d","i-">> >>,
    << <<"m","a">>, <<"d","i-">>, <<"m">> >>, << <<"d","i-">>, <<"m","a">> >>,
    << <<"l","e","r">>, <<"i","m","i","z">>, <<"d","e","n">> >> }

Sequences == Strings(SequenceSuffixes, MaxSequenceLen) \cup TestSequences

MorphInit == AtRest /\ dict = DictTests /\ probe_in \in Sequences

CallValidateSequence == Answered(validate_sequence(probe_in))

MorphNext == CallValidateSequence

MorphSpec == MorphInit /\ [][MorphNext]_vars

\* ---- RootValidator::new(min_root_length, strict).is_valid_root(candidate) ----

RootCandidateLen == 4

\* A vowel, a voiceless stop, a sonorant and a consonant of neither class
RootAlphabet == {"a", "t", "l", "s"}

\* The candidates of the unit tests, the bound stems, the lemmas of the
\* dictionaries and candidates at the two ends of the vowel ratio
Candidates ==
  Strings(RootAlphabet, RootCandidateLen)
  \cup { <<"k">>, <<"k","i">>, <<"k","i","t","a","p">>, <<"k","r","m">>, <<"k","a","r","m","a">>,
         <<"k","i","t","a","c,","k">>, <<"O:","G~","R","E","N","C">>, <<"k","i","t","a">>,
         <<"e","v","i">>, <<"k","a","l">>, <<"g","u:","n">>, <<"a","t">>, <<"A","T">>,
         <<"x","y","z","a","b","c">>, <<"s","t","s","t","s","a","l">>,
         <<"a","a","a","a","a","a","a","a","a","t">> }
  \cup Range(BOUND_STEMS)
  \cup get_valid_roots(DictTests \o DictMore)

RootInit ==
  /\ AtRest
  /\ dict \in Dictionaries
  /\ probe_in \in (0..MaxMinRootLength) \X BOOLEAN \X Candidates

CallIsValidRoot ==
  Answered(is_valid_root(probe_in[1], probe_in[2], get_valid_roots(dict), probe_in[3]))

RootNext == CallIsValidRoot

RootSpec == RootInit /\ [][RootNext]_vars

(***************************************************************************)
(* Properties                                                              *)
(***************************************************************************)

Min(a, b) == IF a <= b THEN a ELSE b

IsKey(lines, w) == \E i \in DOMAIN lines : lines[i][1] = w

Returned == pc = "done"

\* C1: in strict mode a word that is a key of the lemma dictionary is
\* answered by the Tier 1 lookup alone: the call has returned the lemma of
\* the (last) dictionary record for the word, whatever min_root_length and
\* check_harmony are, and no compound or single-suffix peel was attempted.
C1_Tier1ReturnsLemma ==
  (strict /\ IsKey(dict, word) /\ pc # "tier1") =>
     /\ pc = "done"
     /\ \E i \in DOMAIN dict :
          /\ dict[i][1] = word
          /\ result = dict[i][2]
          /\ \A j \in DOMAIN dict : j > i => dict[j][1] # word
     /\ peels = <<>>
     /\ stripped_suffixes = <<>>
     /\ iterations = 0

C1_Witness ==
  /\ Returned /\ strict /\ ~check_harmony /\ min_root_length = 3
  /\ word = <<"g","e","l","i","y","o","r","u","m">>
  /\ result = <<"g","e","l">>

\* C2 as stated: every result R of every call has
\* chars(R) >= min(chars(W), min_root_length).
C2_MinLengthAlways ==
  Returned => CharCount(result) >= Min(CharCount(word), min_root_length)

\* C2 amended: every result that does not come from the Tier 1 lookup (lenient
\* mode, or strict mode with a word that is not a dictionary key) has
\* chars(R) >= min(chars(W), min_root_length).
C2_MinLengthUnlessTier1 ==
  (Returned /\ ~(strict /\ IsKey(dict, word))) =>
     CharCount(result) >= Min(CharCount(word), min_root_length)

C2_Witness ==
  /\ Returned /\ ~strict /\ min_root_length = 2
  /\ peels # <<>>
  /\ CharCount(word) > 2
  /\ CharCount(result) = 2

\* C3: for every accepted single-suffix peel the sequence handed to
\* validate_sequence is the list of all suffixes peeled so far, the new one
\* included, root-adjacent first (the new suffix, then the earlier ones from
\* the most recent to the earliest), and validate_sequence accepts that list.
C3_RootAdjacentFirstValidated ==
  \A i \in DOMAIN peels :
     peels[i].phase = "single" =>
        LET root_adjacent_first == <<peels[i].suffix>> \o Reverse(peels[i].before)
        IN  /\ peels[i].sequence = root_adjacent_first
            /\ validate_sequence(root_adjacent_first)

\* C4: in strict mode every returned stem is a member of the valid-roots set
\* or is the input word unchanged, whichever phase returned it.
C4_StrictResultKnownOrInput ==
  (strict /\ Returned) => (result \in get_valid_roots(dict) \/ result = word)

C4_Witness ==
  /\ Returned /\ strict /\ ~tier1_hit
  /\ peels # <<>>
  /\ peels[Len(peels)].phase = "single"
  /\ result # word
  /\ result \in get_valid_roots(dict)

\* C5: every accepted peel, compound or single, was made with check_harmony
\* off, or with a fixed morpheme, or with a suffix that check_vowel_harmony
\* accepts for the candidate it leaves.
C5_PeelsAreHarmonic ==
  \A i \in DOMAIN peels :
     \/ ~check_harmony
     \/ peels[i].suffix \in Range(FIXED_MORPHEMES)
     \/ check_vowel_harmony(peels[i].candidate, peels[i].suffix)

C5_Witness ==
  /\ Returned /\ check_harmony
  /\ word = <<"g","e","l","i","y","o","r">>
  /\ \E i \in DOMAIN peels :
        /\ peels[i].phase = "single"
        /\ peels[i].suffix = <<"i","y","o","r">>
        /\ peels[i].suffix \in Range(FIXED_MORPHEMES)
        /\ ~check_vowel_harmony(peels[i].candidate, peels[i].suffix)

CompoundPeels == {i \in DOMAIN peels : peels[i].phase = "compound"}

SinglePeels == {i \in DOMAIN peels : peels[i].phase = "single"}

\* The loop of phase 2 was left because the iteration cap was reached
CapReached == iterations = MAX_ITERATIONS /\ changed

\* C6: every call returns; the body of the single-suffix loop runs at most
\* 10 times, at most one compound and at most 10 single suffixes are peeled,
\* and a call that ran into the cap returns the current candidate.
C6_TerminatesWithinCap ==
  /\ <>Returned
  /\ [](/\ iterations <= 10
        /\ Cardinality(CompoundPeels) <= 1
        /\ Cardinality(SinglePeels) <= 10
        /\ (Returned /\ CapReached) => result = current)

C6_Witness ==
  /\ Returned /\ CapReached
  /\ Cardinality(SinglePeels) = 10
  /\ result = current
  /\ CharCount(result) > min_root_length + 1
  /\ ends_with(result, <<"a">>)

\* No compound and no single-suffix proposal for the input word passes
NothingPasses ==
  LET roots == get_valid_roots(dict)
  IN  /\ \A k \in DOMAIN COMPOUND_SUFFIXES :
            ~CompoundAccepts(word, k, min_root_length, strict, check_harmony, roots)
      /\ \A k \in DOMAIN collect_all_single_suffixes :
            ~SingleAccepts(collect_all_single_suffixes, word, k, <<>>,
                           min_root_length, strict, check_harmony, roots)

\* C7: every call returns a string, and when no compound and no single-suffix
\* proposal passes the three predicates (and the Tier 1 lookup does not
\* apply) the returned string is the input word.
C7_TotalAndUnchangedWhenNothingPasses ==
  /\ <>Returned
  /\ []((Returned /\ ~(strict /\ IsKey(dict, word)) /\ NothingPasses) => result = word)

C7_Witness ==
  /\ Returned /\ ~strict /\ check_harmony /\ min_root_length = 2
  /\ NothingPasses
  /\ word = <<"k","i","t","a","p","l","e","r">>
  /\ result = word

\* C8: in strict mode every lemma of the dictionary is returned unchanged.
C8_LemmaIdempotent ==
  (Returned /\ strict /\ word \in get_valid_roots(dict)) => result = word

\* C9 as stated: an input word that is one of the bound stems is returned
\* unchanged.
C9_BoundStemUnchanged ==
  (Returned /\ word \in Range(BOUND_STEMS)) => result = word

EndsWithBoundStem(w) ==
  \E k \in DOMAIN BOUND_STEMS : ends_with(to_lowercase(w), BOUND_STEMS[k])

\* C9 amended: an input word that is one of the bound stems, and that the
\* Tier 1 lookup does not answer, is returned unchanged exactly when no peel
\* of it was accepted, which is always so for the stems "o:g~renc" and
\* "o:g~ret"; otherwise the result is a proper prefix of the word that does
\* not end in a bound stem.
C9_BoundStemUnchangedUnlessPeeled ==
  (Returned /\ word \in Range(BOUND_STEMS) /\ ~(strict /\ IsKey(dict, word))) =>
     /\ (result = word) <=> (peels = <<>>)
     /\ word \in {BOUND_STEMS[1], BOUND_STEMS[2]} => result = word
     /\ result # word =>
          /\ CharCount(result) < CharCount(word)
          /\ result = SubSeq(word, 1, Len(result))
          /\ ~EndsWithBoundStem(result)

C9_Witness ==
  /\ Returned /\ ~strict /\ check_harmony /\ min_root_length = 2
  /\ word = <<"g","e","l","i">>
  /\ result = <<"g","e","l">>

NoTurkishVowel(w) == \A i \in DOMAIN w : w[i] \notin TURKISH_VOWELS

\* C10: in lenient mode a word without a Turkish vowel is never peeled and is
\* returned unchanged, because the root validator rejects every candidate
\* (every proper prefix) of it.
C10_VowellessUnchanged ==
  (~strict /\ NoTurkishVowel(word)) =>
     /\ peels = <<>>
     /\ Returned => result = word
     /\ \A n \in 0..(Len(word) - 1) :
           ~is_valid_root(min_root_length, FALSE, get_valid_roots(dict), SubSeq(word, 1, n))

C10_Witness ==
  /\ Returned /\ ~strict /\ ~check_harmony /\ min_root_length = 0
  /\ word = <<"x","y","z","m">>
  /\ result = word

\* C11: in lenient mode an input of zero or one character is never peeled and
\* is returned unchanged, for every min_root_length and check_harmony: the
\* empty word yields the empty word, a single character yields itself.
C11_ShortInputUnchanged ==
  (~strict /\ CharCount(word) <= 1) =>
     /\ peels = <<>>
     /\ Returned => result = word

\* The one-character word "a" is itself a suffix of the single pass, so the
\* empty candidate is offered to the root validator with min_root_length 0.
C11_Witness ==
  /\ Returned /\ ~strict /\ ~check_harmony /\ min_root_length = 0
  /\ word = <<"a">>
  /\ \E i \in DOMAIN all_single_suffixes : all_single_suffixes[i] = word
  /\ result = word

\* The letters of the four vowel classes, by the side of the front/back axis
FrontVowels == {"e", "i", "o:", "u:"}
BackVowels == {"a", "i-", "o", "u"}

\* The lowercase letter a character stands for
Letter(c) == Head(CharToLower(c))
IsVowel(c) == Letter(c) \in FrontVowels \cup BackVowels
HasVowel(s) == \E i \in DOMAIN s : IsVowel(s[i])
LastVowel(s) == s[CHOOSE i \in DOMAIN s : IsVowel(s[i]) /\ \A j \in DOMAIN s : j > i => ~IsVowel(s[j])]
SameSide(c, d) == (Letter(c) \in FrontVowels) <=> (Letter(d) \in FrontVowels)

\* C12: check_vowel_harmony(root, suffix) is true exactly when the root has a
\* vowel and every vowel of the suffix (if any) is on the same side of the
\* front/back axis as the last vowel of the root; neither rounding nor any
\* earlier vowel of the root enters the result.
C12_HarmonyExactlyFrontBack ==
  pc = "answered" =>
    \E root \in {probe_in[1]} : \E suffix \in {probe_in[2]} :
      probe_out <=>
        /\ HasVowel(root)
        /\ \A i \in DOMAIN suffix : IsVowel(suffix[i]) => SameSide(suffix[i], LastVowel(root))

\* A back rounded last vowel after a front first vowel, and a back unrounded suffix
C12_Witness ==
  /\ pc = "answered"
  /\ probe_in = << <<"e","k","o">>, <<"a">> >>
  /\ probe_out

\* C13 as stated: for every root, a suffix without a vowel agrees.
C13_ConsonantalSuffixAlwaysAgrees ==
  (pc = "answered" /\ ~HasVowel(probe_in[2])) => probe_out

\* C13 amended: for every root that has a vowel, a suffix without a vowel
\* (the empty suffix included) agrees; for a root without a vowel the
\* predicate is false whatever the suffix.
C13_ConsonantalSuffixAgreesWithVowelledRoot ==
  (pc = "answered" /\ ~HasVowel(probe_in[2])) => (probe_out <=> HasVowel(probe_in[1]))

C13_Witness ==
  /\ pc = "answered"
  /\ probe_in = << <<"k","i","t","a","p">>, <<"m">> >>
  /\ probe_out

\* C14: the harmony predicate returns true for every root when the suffix is
\* one of the fixed morphemes.
C14_FixedMorphemeAlwaysAgrees ==
  (pc = "answered" /\ probe_in[2] \in Range(FIXED_MORPHEMES)) => probe_out

\* The slot tables of the two paradigms, by ordinal
NominalSlots == << nominal_map_Plural, nominal_map_Possessive, nominal_map_Case >>
VerbalSlots == << verbal_map_Voice, verbal_map_Negation, verbal_map_TenseAspect,
                  verbal_map_Person >>
InTable(table, s) == \E k \in DOMAIN table : s \in table[k]
Ordinal(table, s) == CHOOSE k \in DOMAIN table : s \in table[k]
IsNominal(s) == InTable(NominalSlots, s)
IsVerbal(s) == InTable(VerbalSlots, s)
IsAmbiguous(s) == IsNominal(s) /\ IsVerbal(s)
IsUnknown(s) == ~IsNominal(s) /\ ~IsVerbal(s)
\* Every suffix of the sequence is in the table and the ordinals never fall
Monotone(table, seq) ==
  /\ \A i \in DOMAIN seq : InTable(table, seq[i])
  /\ \A i \in DOMAIN seq : \A j \in DOMAIN seq :
        i < j => Ordinal(table, seq[i]) <= Ordinal(table, seq[j])

\* C15: a sequence without unknown and without ambiguous suffixes is accepted
\* exactly when all its suffixes are of one paradigm and their slot ordinals
\* never fall from left to right; the empty sequence is accepted and a
\* sequence that mixes the paradigms is rejected.
C15_UnambiguousSequenceMonotone ==
  (pc = "answered" /\ \A i \in DOMAIN probe_in : ~IsUnknown(probe_in[i]) /\ ~IsAmbiguous(probe_in[i])) =>
     /\ probe_out <=> (Monotone(NominalSlots, probe_in) \/ Monotone(VerbalSlots, probe_in))
     /\ probe_in = <<>> => probe_out
     /\ ((\E i \in DOMAIN probe_in : IsNominal(probe_in[i])) /\
         (\E i \in DOMAIN probe_in : IsVerbal(probe_in[i]))) => ~probe_out

\* A doubled plural followed by a case suffix: equal slots are allowed
C15_Witness ==
  /\ pc = "answered"
  /\ probe_in = << <<"l","a","r">>, <<"l","a","r">>, <<"d","a">> >>
  /\ probe_out

\* C16 as stated: a sequence with an unknown suffix is accepted whatever the
\* other suffixes are.
C16_UnknownAlwaysAccepted ==
  (pc = "answered" /\ \E i \in DOMAIN probe_in : IsUnknown(probe_in[i])) => probe_out

\* C16 amended: a sequence with an unknown suffix is accepted exactly when
\* none of its suffixes is ambiguous, whatever the order.
C16_UnknownAcceptedUnlessAmbiguous ==
  (pc = "answered" /\ \E i \in DOMAIN probe_in : IsUnknown(probe_in[i])) =>
     (probe_out <=> \A i \in DOMAIN probe_in : ~IsAmbiguous(probe_in[i]))

\* An out-of-order, mixed sequence is let through by an unknown suffix
C16_Witness ==
  /\ pc = "answered"
  /\ probe_in = << <<"d","a">>, <<"x","y","z">>, <<"d","i">> >>
  /\ probe_out

\* C17: a sequence with an ambiguous suffix is accepted exactly when all its
\* suffixes are in the nominal map with nominal ordinals that never fall, or
\* all are in the verbal map with verbal ordinals that never fall.
C17_AmbiguousEitherParadigm ==
  (pc = "answered" /\ \E i \in DOMAIN probe_in : IsAmbiguous(probe_in[i])) =>
     (probe_out <=> (Monotone(NominalSlots, probe_in) \/ Monotone(VerbalSlots, probe_in)))

\* "i-m" is read as a possessive between a plural and a case suffix, although
\* classify calls it a person marker
C17_Witness ==
  /\ pc = "answered"
  /\ probe_in = << <<"l","a","r">>, <<"i-","m">>, <<"d","a">> >>
  /\ classify(probe_in[2])[1] = "Verbal"
  /\ probe_out

\* The syllable-structure rule: at least one vowel and, for more than three
\* characters, a vowel-to-length ratio between 0.2 and 0.7
SyllableRule(chars) ==
  LET vowels == Cardinality({i \in DOMAIN chars : chars[i] \in TURKISH_VOWELS})
  IN  /\ vowels >= 1
      /\ Len(chars) > 3 => (10 * vowels >= 2 * Len(chars) /\ 10 * vowels <= 7 * Len(chars))

EndsInStopOrSonorant(chars) ==
  chars # <<>> /\ chars[Len(chars)] \in VOICELESS_STOPS \cup SONORANT_CONSONANTS

HasForbiddenFinalCluster(chars) ==
  \E k \in DOMAIN INVALID_FINAL_CLUSTERS : ends_with(chars, INVALID_FINAL_CLUSTERS[k])

\* C18: in lenient mode a candidate that meets the minimum length, is not
\* excluded by a bound stem, has a vowel and no forbidden final cluster, and
\* ends in a voiceless stop or a sonorant, is accepted exactly when it passes
\* the syllable-structure rule; "at" is accepted with min_root_length 2.
C18_StopOrSonorantBySyllableRule ==
  pc = "answered" =>
    \E min_len \in {probe_in[1]} : \E candidate \in {probe_in[3]} :
    \E lower \in {to_lowercase(probe_in[3])} :
      /\ ( /\ ~probe_in[2]
           /\ CharCount(candidate) >= min_len
           /\ ~EndsWithBoundStem(candidate)
           /\ ~NoTurkishVowel(candidate)
           /\ ~HasForbiddenFinalCluster(lower)
           /\ EndsInStopOrSonorant(lower) )
         => (probe_out <=> SyllableRule(lower))
      /\ (~probe_in[2] /\ min_len = 2 /\ candidate = <<"a","t">>) => probe_out

\* C19 as stated: in strict mode a candidate is accepted exactly when it is a
\* member of the valid-roots set, for every min_root_length.
C19_StrictExactlyMembers ==
  (pc = "answered" /\ probe_in[2]) => (probe_out <=> probe_in[3] \in get_valid_roots(dict))

\* C19 amended: in strict mode a candidate is accepted exactly when it has at
\* least min_root_length characters, its lowercase form neither is nor ends
\* in a bound stem, and it is a member of the valid-roots set.
C19_StrictMembersPastLengthAndBoundStems ==
  (pc = "answered" /\ probe_in[2]) =>
     (probe_out <=> /\ CharCount(probe_in[3]) >= probe_in[1]
                    /\ ~EndsWithBoundStem(probe_in[3])
                    /\ probe_in[3] \in get_valid_roots(dict))

\* A phonotactically fine word that is no lemma is rejected in strict mode
C19_Witness ==
  /\ pc = "answered"
  /\ probe_in = <<2, TRUE, <<"k","a","l">> >>
  /\ check_phonotactics(probe_in[3])
  /\ ~probe_out

\* Words built as root + plural + possessive + case with harmonic suffixes;
\* the chain of the first is a listed compound suffix, that of the second not
PluralPossessiveCaseWords ==
  { [root |-> <<"e","v">>,
     chain |-> << <<"l","e","r">>, <<"i","m","i","z">>, <<"d","e","n">> >>],
    [root |-> <<"k","i","t","a","p">>,
     chain |-> << <<"l","a","r">>, <<"i-","m">>, <<"d","a">> >>] }

\* C20: in lenient mode with min_root_length 2 and check_harmony true, a word
\* built as root + plural + possessive + case loses all three suffixes and
\* the root is returned, whether or not the chain is a compound suffix.
C20_PluralPossessiveCaseStripped ==
  (Returned /\ ~strict /\ min_root_length = 2 /\ check_harmony) =>
     \A w \in PluralPossessiveCaseWords :
        word = w.root \o w.chain[1] \o w.chain[2] \o w.chain[3] => result = w.root

\* The state machine and the function agree on what a call returns
ResultIsFunctionOfArgs ==
  Returned => result = strip_suffixes_validated(word, strict, min_root_length, check_harmony,
                                                dict)

\* C21: with strict = false the stem does not depend on the contents of the
\* lemma dictionary: a call with the same word, min_root_length and
\* check_harmony under any other dictionary returns the same stem.
C21_LenientIgnoresDictionary ==
  (Returned /\ ~strict) =>
     \A lines \in Dictionaries :
        strip_suffixes_validated(word, FALSE, min_root_length, check_harmony, lines) = result

\* s occurs in t as a contiguous substring (str::contains)
Contains(t, s) == \E i \in 0..(Len(t) - Len(s)) : SubSeq(t, i + 1, i + Len(s)) = s

\* C22: for a noun root followed by the plural suffix that agrees with it,
\* strip_suffixes returns a string that contains the root.
C22_NaiveKeepsRoot ==
  Returned =>
    \A r \in NounRoots : \A p \in Plurals :
       (word = r \o p /\ check_vowel_harmony(r, p)) => Contains(result, r)

\* Each cell is empty until it is complete and then holds the value built
\* from all the records; one thread per cell at most runs the closure; a
\* thread that has returned holds that value
OnceInv ==
  /\ \A c \in Cells :
        /\ once_cell[c].value =
              IF once_cell[c].state = "complete" THEN closure_value(c, dict) ELSE {}
        /\ Cardinality({t \in DOMAIN callers : callers[t].cell = c /\ callers[t].ran}) <= 1
  /\ \A t \in DOMAIN callers :
        callers[t].pc = "returned" =>
           /\ once_cell[callers[t].cell].state = "complete"
           /\ callers[t].seen = closure_value(callers[t].cell, dict)

\* A complete cell is not written again
OnceStable == \A c \in Cells : once_cell[c].state = "complete" => once_cell'[c] = once_cell[c]

OnceAllReturned == \A t \in DOMAIN callers : callers[t].pc = "returned"

\* C23: when several threads make the first use of the lemma dictionary or
\* of the valid-roots set at once, in every interleaving one thread builds
\* the value, every caller returns with that fully built value, and a
\* complete cell is never written again.
C23_OnceInitialized ==
  /\ []OnceInv
  /\ [][OnceStable]_vars
  /\ <>(pc = "once" => OnceAllReturned)

\* Two threads made the first use of LEMMA_DICT together: one ran the
\* closure, the other returned with the same map without running it
C23_Witness ==
  \E t \in DOMAIN callers : \E u \in DOMAIN callers :
     /\ callers[t].cell = "LEMMA_DICT" /\ callers[u].cell = "LEMMA_DICT"
     /\ callers[t].pc = "returned" /\ callers[u].pc = "returned"
     /\ callers[t].ran /\ ~callers[u].ran
     /\ callers[u].seen = callers[t].seen /\ callers[u].seen # {}

\* The single-suffix list has been built
SingleListBuilt == pc \in {"single", "final", "done"} /\ all_single_suffixes # <<>>

\* C24: the list of single suffixes scanned by the single-suffix pass holds
\* every suffix string at most once.
C24_SingleSuffixesDistinct ==
  SingleListBuilt =>
    \A i \in DOMAIN all_single_suffixes : \A j \in DOMAIN all_single_suffixes :
       i # j => all_single_suffixes[i] # all_single_suffixes[j]

\* The positions of the list whose suffix is a true suffix of the candidate
Matching(cur) == {k \in DOMAIN all_single_suffixes : ends_with(cur, all_single_suffixes[k])}

\* C25: in every scan of the single-suffix pass, of two different suffixes
\* that both end the current candidate the one with more characters stands
\* earlier in the list, at every position it occupies.
C25_LongerMatchTestedFirst ==
  pc = "single" =>
    \E matching \in {Matching(current)} :
      \A i \in matching : \A j \in matching :
         CharCount(all_single_suffixes[i]) > CharCount(all_single_suffixes[j]) => i < j

\* "i-m" (three bytes, two characters) and "m" both end the candidate left
\* after "da" was peeled from kitaplarimda
C25_Witness ==
  /\ pc = "single"
  /\ current = <<"k","i","t","a","p","l","a","r","i-","m">>
  /\ \E i \in Matching(current) : \E j \in Matching(current) :
        /\ all_single_suffixes[i] = <<"i-","m">>
        /\ all_single_suffixes[j] = <<"m">>
        /\ i < j

\* The changes of phase a call may make: pre-dictionary to the compound pass
\* or to the return, the compound pass to the single pass, the single pass
\* to itself, to the final resolution or to the return, the final resolution
\* to the return
ForwardSteps ==
  { <<"tier1", "compound">>, <<"tier1", "done">>, <<"compound", "single">>,
    <<"single", "single">>, <<"single", "final">>, <<"single", "done">>,
    <<"final", "done">> }

ForwardStep == (<<pc, pc'>>) \in ForwardSteps

\* The compound suffixes, by number, that end the input word, leave a
\* non-empty candidate and pass the three predicates
PassingCompounds ==
  {k \in DOMAIN COMPOUND_SUFFIXES :
     \E suffix \in {COMPOUND_SUFFIXES[k]} :
       /\ Len(word) > Len(suffix)
       /\ SubSeq(word, Len(word) - Len(suffix) + 1, Len(word)) = suffix
       /\ \E candidate \in {SubSeq(word, 1, Len(word) - Len(suffix))} :
            /\ is_valid_root(min_root_length, strict, get_valid_roots(dict), candidate)
            /\ (check_harmony => check_vowel_harmony(candidate, suffix))
            /\ validate_sequence(<<suffix>>)}

\* At most one peel is a compound peel, it is the first peel, and it is the
\* peel of the first passing compound suffix in list order
OneCompoundPeel ==
  /\ CompoundPeels \subseteq {1}
  /\ (pc \in {"single", "final", "done"} /\ ~tier1_hit) =>
        IF PassingCompounds = {} THEN CompoundPeels = {}
        ELSE /\ CompoundPeels = {1}
             /\ \E k \in PassingCompounds :
                  /\ \A j \in PassingCompounds : k <= j
                  /\ peels[1].suffix = COMPOUND_SUFFIXES[k]
                  /\ peels[1].candidate \o COMPOUND_SUFFIXES[k] = word

\* C26: the phases are entered only in the order pre-dictionary, compound
\* pass, single pass, terminal; the compound pass commits at most one peel,
\* that of the first compound suffix in list order whose candidate is not
\* empty and passes the three predicates, and is not entered again.
C26_PhasesForwardOneCompoundPeel ==
  /\ []OneCompoundPeel
  /\ [][ForwardStep]_vars

\* Both "lerimizden" and the later "imizden" pass for evlerimizden; the
\* first in list order was peeled and the single pass has begun
C26_Witness ==
  /\ pc = "single" /\ ~strict /\ check_harmony /\ min_root_length = 2
  /\ word = <<"e","v","l","e","r","i","m","i","z","d","e","n">>
  /\ Cardinality(PassingCompounds) >= 2
  /\ peels = << [phase |-> "compound", suffix |-> <<"l","e","r","i","m","i","z","d","e","n">>,
                 candidate |-> <<"e","v">>,
                 sequence |-> << <<"l","e","r","i","m","i","z","d","e","n">> >>,
                 before |-> <<>>] >>

\* The positions of the single-suffix list whose candidate is a member of the
\* valid-roots set and passes every test of the scan except, possibly, the
\* exclusion of bound stems
MemberCandidate(k) ==
  \E suffix \in {all_single_suffixes[k]} :
    /\ ends_with(current, suffix)
    /\ \E candidate \in {StripSuffix(current, suffix)} :
         /\ candidate \in get_valid_roots(dict)
         /\ CharCount(candidate) >= min_root_length
         /\ (~strict => check_phonotactics(candidate))
         /\ single_has_harmony(check_harmony, candidate, suffix)
         /\ validate_sequence(test_sequence(suffix, stripped_suffixes))

\* The scan of the single-suffix pass is about to run
ScanRuns ==
  /\ pc = "single" /\ loop_continues(changed, iterations)
  /\ current \notin dictionary(dict)

\* Position k is a member candidate with no accepted suffix before it
FirstInScan(k, accepted) == MemberCandidate(k) /\ \A j \in accepted : k <= j

ReturnsCandidate(k) ==
  pc' = "done" /\ result' = StripSuffix(current, all_single_suffixes[k])

\* C27 as stated: a candidate of the single pass that is a member of the
\* valid-roots set is returned even if it is or ends with a bound stem.
C27_DictionaryBeforeBoundStem ==
  [][ScanRuns =>
       \A accepted \in {SingleAccepted(all_single_suffixes, current, stripped_suffixes,
                                       min_root_length, strict, check_harmony,
                                       get_valid_roots(dict))} :
         \A k \in DOMAIN all_single_suffixes :
            FirstInScan(k, accepted) => ReturnsCandidate(k)]_vars

\* C27 amended: such a candidate is returned exactly when it neither is nor
\* ends with a bound stem; the exclusion of bound stems comes before the
\* dictionary match.
C27_BoundStemBeforeDictionary ==
  [][ScanRuns =>
       \A accepted \in {SingleAccepted(all_single_suffixes, current, stripped_suffixes,
                                       min_root_length, strict, check_harmony,
                                       get_valid_roots(dict))} :
         \A k \in DOMAIN all_single_suffixes :
            FirstInScan(k, accepted) =>
              (ReturnsCandidate(k) <=>
                 ~EndsWithBoundStem(StripSuffix(current, all_single_suffixes[k])))]_vars

\* In strict mode "lar" is not peeled from yapilar although the candidate is
\* a lemma, because the candidate is a bound stem; the word comes back whole
C27_Witness ==
  /\ Returned /\ strict /\ ~tier1_hit
  /\ word = <<"y","a","p","i-","l","a","r">>
  /\ <<"y","a","p","i-">> \in get_valid_roots(dict)
  /\ EndsWithBoundStem(<<"y","a","p","i-">>)
  /\ result = word

\* The call is past the Tier 1 lookup and has not returned
AfterTier1 == pc \in {"compound", "single", "final"}

\* The final resolution hands back the current candidate
FinalReturnsCurrent == pc = "final" => (pc' = "done" /\ result' = current)

\* C28: after Tier 1 best_result equals the current candidate in every
\* state, so the final resolution returns the current candidate in each of
\* its branches, also when the candidate fails the root validator.
C28_BestResultIsCurrent ==
  /\ [](AfterTier1 => best_result = current)
  /\ [][FinalReturnsCurrent]_vars

\* The final resolution returned a candidate that is neither a known root
\* nor a valid root: its last branch, which hands back best_result
C28_Witness ==
  /\ Returned /\ ~tier1_hit /\ ~strict /\ min_root_length = 2
  /\ word = <<"k","r","m">>
  /\ current = word /\ best_result = word
  /\ current \notin get_valid_roots(dict)
  /\ ~is_valid_root(min_root_length, strict, get_valid_roots(dict), current)
  /\ result = current

\* The strings of a sequence of strings, joined in order
RECURSIVE Concat(_)
Concat(seqs) == IF seqs = <<>> THEN <<>> ELSE Head(seqs) \o Concat(Tail(seqs))

IsPrefix(p, w) == Len(p) <= Len(w) /\ SubSeq(w, 1, Len(p)) = p

\* The input is the current candidate followed by the recorded suffixes, the
\* last peeled first; a result that Tier 1 did not give is a prefix of the
\* input, and is empty only if the input is
InputIsCandidatePlusSuffixes ==
  /\ AfterTier1 => word = current \o Concat(Reverse(stripped_suffixes))
  /\ (Returned /\ ~tier1_hit) =>
        /\ IsPrefix(result, word)
        /\ word # <<>> => result # <<>>

\* A step that commits a peel makes the candidate strictly shorter
CommitShortens ==
  (AfterTier1 /\ current' # current) =>
     (CharCount(current') < CharCount(current) /\ IsPrefix(current', current))

\* C29: after Tier 1 the input word is the current candidate followed by the
\* recorded suffixes in reverse peel order; every result not given by the
\* Tier 1 lookup is a prefix of the input, every commit shortens the
\* candidate, and a non-empty input never gives an empty result.
C29_InputIsCandidatePlusSuffixes ==
  /\ []InputIsCandidatePlusSuffixes
  /\ [][CommitShortens]_vars

\* Two peels are on record and min_root_length is 0
C29_Witness ==
  /\ pc = "single" /\ min_root_length = 0 /\ ~strict
  /\ Len(stripped_suffixes) = 2
  /\ stripped_suffixes[1] # stripped_suffixes[2]
  /\ word = current \o stripped_suffixes[2] \o stripped_suffixes[1]

\* Every suffix the stripper knows
AnySuffix == Range(COMPOUND_SUFFIXES) \cup Range(NOMINAL_SUFFIXES) \cup Range(VERBAL_SUFFIXES)

\* C30: in strict mode a call that Tier 1 does not answer peels at most one
\* suffix; the candidate of that peel is a valid root and is the result; a
\* word that is not a valid root followed by one suffix comes back
\* unchanged.
C30_StrictPeelsAtMostOnce ==
  (strict /\ ~tier1_hit) =>
     /\ Len(peels) <= 1
     /\ \A i \in DOMAIN peels : peels[i].candidate \in get_valid_roots(dict)
     /\ Returned =>
          /\ result = IF peels = <<>> THEN word ELSE peels[1].candidate
          /\ (~\E r \in get_valid_roots(dict) : \E suffix \in AnySuffix : word = r \o suffix)
                => result = word

\* kitaplarda is two single peels away from its root: nothing was peeled
C30_Witness ==
  /\ Returned /\ strict /\ ~tier1_hit /\ check_harmony /\ min_root_length = 2
  /\ word = <<"k","i","t","a","p","l","a","r","d","a">>
  /\ <<"k","i","t","a","p">> \in get_valid_roots(dict)
  /\ peels = <<>>
  /\ result = word

=============================================================================
